---- MODULE Spec2Model ----
(***************************************************************************)
(* Model of the txcli ledger engine (src/src/main.rs): the per-client      *)
(* account state, execute_transaction (the one state-transition function   *)
(* of the program), and the loop of main that reads rows, stops at the     *)
(* first undecodable one and prints the accounts.                          *)
(* Currency (I50F14) values are modelled by                                *)
(* their raw integer representation (units of 2^-14); the bounded inputs   *)
(* stay far away from the limits of the 64-bit representation, so          *)
(* addition and subtraction are exact.                                     *)
(***************************************************************************)
EXTENDS Integers, Sequences, FiniteSets, TLC

\* ---- bounds of the model ----
NumClients == 2
NumTxIds == 2
MaxAmount == 1
MaxSteps == 3

ClientIds == 1..NumClients
TxIds == 1..NumTxIds
\* amounts a row can carry (raw Currency values); negative amounts parse too
Amounts == (0 - 1)..MaxAmount

\* ---- data model ----
TxType == {"Deposit", "Withdrawal", "Dispute", "Resolve", "ChargeBack"}

\* Option<Currency>: the amount column of a row, absent or present
None == << >>
Some(a) == <<a>>
OptionCurrency == {None} \cup {Some(a) : a \in Amounts}

\* struct InputTx(TxType, u16, u32, Option<Currency>)
InputTx == [ty : TxType, cid : ClientIds, tid : TxIds, amount : OptionCurrency]

\* struct Tx
Tx(ty, cid, tid, amount) == [tx_type |-> ty, cid |-> cid, tid |-> tid, amount |-> amount]

\* impl From<InputTx> for Tx
TxFrom(input) ==
    Tx(input.ty, input.cid, input.tid,
       IF input.amount = None THEN 0 ELSE input.amount[1])

\* HashMap operations
EmptyMap == << >>
MapInsert(m, k, v) == [x \in DOMAIN m \cup {k} |-> IF x = k THEN v ELSE m[x]]
MapRemove(m, k) == [x \in DOMAIN m \ {k} |-> m[x]]

\* #[derive(Default)] struct ClientState
ClientStateDefault ==
    [available |-> 0, held |-> 0, locked |-> FALSE,
     history |-> EmptyMap, disputed |-> EmptyMap]

\* app_state.clients.entry(cid).or_default()
EntryOrDefault(cl, cid) == IF cid \in DOMAIN cl THEN cl[cid] ELSE ClientStateDefault

\* ---- execute_transaction, one operator per match arm ----
\* (each arm is preceded by the faulty variants the properties are tried against)
\* variant: a deposit also reactivates (unlocks) the account
DepositArm_Unlocks(ce, tx) ==
    [ce EXCEPT !.available = @ + tx.amount, !.locked = FALSE]

\* variant: a deposit replaces the balance instead of adding to it
DepositArm_Replaces(ce, tx) == [ce EXCEPT !.available = tx.amount]

DepositArm(ce, tx) == [ce EXCEPT !.available = @ + tx.amount]

\* variant: the overdraw check is omitted
WithdrawalArm_NoCheck(ce, tx) == [ce EXCEPT !.available = @ - tx.amount]

WithdrawalArm(ce, tx) ==
    IF ce.available >= tx.amount
    THEN [ce EXCEPT !.available = @ - tx.amount]
    ELSE ce

\* variant: an unknown TxId is disputed with the amount the row carries
DisputeArm_HoldsUnknown(ce, tx) ==
    IF tx.tid \in DOMAIN ce.history
    THEN LET previous_tx == ce.history[tx.tid] IN
         [ce EXCEPT !.history = MapRemove(@, tx.tid),
                    !.held = @ + previous_tx.amount,
                    !.available = @ - previous_tx.amount,
                    !.disputed = MapInsert(@, tx.tid, previous_tx)]
    ELSE [ce EXCEPT !.held = @ + tx.amount, !.available = @ - tx.amount]

\* variant: a dispute is refused when available does not cover the amount
DisputeArm_ChecksFunds(ce, tx) ==
    IF tx.tid \in DOMAIN ce.history /\ ce.available >= ce.history[tx.tid].amount
    THEN LET previous_tx == ce.history[tx.tid] IN
         [ce EXCEPT !.history = MapRemove(@, tx.tid),
                    !.held = @ + previous_tx.amount,
                    !.available = @ - previous_tx.amount,
                    !.disputed = MapInsert(@, tx.tid, previous_tx)]
    ELSE ce

DisputeArm(ce, tx) ==
    IF tx.tid \in DOMAIN ce.history
    THEN LET previous_tx == ce.history[tx.tid] IN
         [ce EXCEPT !.history = MapRemove(@, tx.tid),
                    !.held = @ + previous_tx.amount,
                    !.available = @ - previous_tx.amount,
                    !.disputed = MapInsert(@, tx.tid, previous_tx)]
    ELSE ce

\* variant: the released amount is not given back to available
ResolveArm_NoRestore(ce, tx) ==
    IF tx.tid \in DOMAIN ce.disputed
    THEN LET previous_tx == ce.disputed[tx.tid] IN
         [ce EXCEPT !.disputed = MapRemove(@, tx.tid),
                    !.held = @ - previous_tx.amount,
                    !.history = MapInsert(@, tx.tid, previous_tx)]
    ELSE ce

ResolveArm(ce, tx) ==
    IF tx.tid \in DOMAIN ce.disputed
    THEN LET previous_tx == ce.disputed[tx.tid] IN
         [ce EXCEPT !.disputed = MapRemove(@, tx.tid),
                    !.held = @ - previous_tx.amount,
                    !.available = @ + previous_tx.amount,
                    !.history = MapInsert(@, tx.tid, previous_tx)]
    ELSE ce

\* variant: the charged back amount is given back to available
ChargeBackArm_Restores(ce, tx) ==
    IF tx.tid \in DOMAIN ce.disputed
    THEN LET previous_tx == ce.disputed[tx.tid] IN
         [ce EXCEPT !.disputed = MapRemove(@, tx.tid),
                    !.held = @ - previous_tx.amount,
                    !.available = @ + previous_tx.amount,
                    !.history = MapInsert(@, tx.tid, previous_tx),
                    !.locked = TRUE]
    ELSE ce

\* variant: the account is locked outside the `if let`, matched or not
ChargeBackArm_AlwaysLocks(ce, tx) ==
    IF tx.tid \in DOMAIN ce.disputed
    THEN LET previous_tx == ce.disputed[tx.tid] IN
         [ce EXCEPT !.disputed = MapRemove(@, tx.tid),
                    !.held = @ - previous_tx.amount,
                    !.history = MapInsert(@, tx.tid, previous_tx),
                    !.locked = TRUE]
    ELSE [ce EXCEPT !.locked = TRUE]

ChargeBackArm(ce, tx) ==
    IF tx.tid \in DOMAIN ce.disputed
    THEN LET previous_tx == ce.disputed[tx.tid] IN
         [ce EXCEPT !.disputed = MapRemove(@, tx.tid),
                    !.held = @ - previous_tx.amount,
                    !.history = MapInsert(@, tx.tid, previous_tx),
                    !.locked = TRUE]
    ELSE ce

\* variant: a locked account blocks every further row
MatchArm_LockBlocks(ce, tx) ==
    IF ce.locked THEN ce
    ELSE CASE tx.tx_type = "Deposit" -> DepositArm(ce, tx)
           [] tx.tx_type = "Withdrawal" -> WithdrawalArm(ce, tx)
           [] tx.tx_type = "Dispute" -> DisputeArm(ce, tx)
           [] tx.tx_type = "Resolve" -> ResolveArm(ce, tx)
           [] tx.tx_type = "ChargeBack" -> ChargeBackArm(ce, tx)

MatchArm(ce, tx) ==
    CASE tx.tx_type = "Deposit" -> DepositArm(ce, tx)
      [] tx.tx_type = "Withdrawal" -> WithdrawalArm(ce, tx)
      [] tx.tx_type = "Dispute" -> DisputeArm(ce, tx)
      [] tx.tx_type = "Resolve" -> ResolveArm(ce, tx)
      [] tx.tx_type = "ChargeBack" -> ChargeBackArm(ce, tx)

\* client_entry.history.insert(tx.tid, tx), executed after every arm
RecordTx(ce, tx) == [ce EXCEPT !.history = MapInsert(@, tx.tid, tx)]

\* the diagnostic execute_transaction prints on stderr, "" when it prints none
Diagnostic(cl, tx) ==
    LET ce == EntryOrDefault(cl, tx.cid) IN
    CASE tx.tx_type = "Deposit" -> ""
      [] tx.tx_type = "Withdrawal" ->
            IF ce.available >= tx.amount THEN "" ELSE "Insuffient funds to withdraw"
      [] tx.tx_type = "Dispute" ->
            IF tx.tid \in DOMAIN ce.history THEN ""
            ELSE "dispute referencing unknown previous transaction"
      [] tx.tx_type = "Resolve" ->
            IF tx.tid \in DOMAIN ce.disputed THEN ""
            ELSE "resolve referencing unknown disputed transaction"
      [] tx.tx_type = "ChargeBack" ->
            IF tx.tid \in DOMAIN ce.disputed THEN ""
            ELSE "chargeback referencing unknown disputed transaction"

\* variant: only rows that were applied without a diagnostic enter history
ClientAfter_RecordsAccepted(cl, tx) ==
    IF Diagnostic(cl, tx) = ""
    THEN RecordTx(MatchArm(EntryOrDefault(cl, tx.cid), tx), tx)
    ELSE MatchArm(EntryOrDefault(cl, tx.cid), tx)

\* the account of tx.cid after execute_transaction
ClientAfter(cl, tx) == RecordTx(MatchArm(EntryOrDefault(cl, tx.cid), tx), tx)

\* variant: a Dispute, Resolve or ChargeBack looks its TxId up in the
\* histories of all clients and acts on the account that holds it
execute_transaction_GlobalTxIds(cl, tx) ==
    LET holders == {c \in DOMAIN cl :
                       /\ tx.tx_type \in {"Dispute", "Resolve", "ChargeBack"}
                       /\ tx.tid \in DOMAIN cl[c].history \cup DOMAIN cl[c].disputed}
        target == IF holders = {} \/ tx.cid \in holders THEN tx.cid
                  ELSE CHOOSE c \in holders : TRUE
    IN MapInsert(cl, target, RecordTx(MatchArm(EntryOrDefault(cl, target), tx), tx))

\* variant: the account is created only by a row that is applied
execute_transaction_SkipsRejected(cl, tx) ==
    IF Diagnostic(cl, tx) # "" /\ tx.cid \notin DOMAIN cl
    THEN cl
    ELSE MapInsert(cl, tx.cid, ClientAfter(cl, tx))

\* fn execute_transaction(app_state, tx): the client map afterwards
execute_transaction(cl, tx) == MapInsert(cl, tx.cid, ClientAfter(cl, tx))

\* the record bound to previous_tx by the `if let Some(previous_tx)` of the
\* Dispute, Resolve and ChargeBack arms; NoTx when the lookup finds nothing
NoTx == [tx_type |-> "NoTx"]

PreviousTx(cl, tx) ==
    LET ce == EntryOrDefault(cl, tx.cid) IN
    CASE tx.tx_type = "Dispute" ->
            IF tx.tid \in DOMAIN ce.history THEN ce.history[tx.tid] ELSE NoTx
      [] tx.tx_type \in {"Resolve", "ChargeBack"} ->
            IF tx.tid \in DOMAIN ce.disputed THEN ce.disputed[tx.tid] ELSE NoTx
      [] OTHER -> NoTx

\* the balances and lock flag of an account
Balances(ce) == [available |-> ce.available, held |-> ce.held, locked |-> ce.locked]

\* every transaction the decoder can hand to execute_transaction
AllTx == {TxFrom(i) : i \in InputTx}

\* ---- output: ClientOutputState and its serialization ----
\* number of fractional bits of Currency (I50F14)
FracBits == 14
\* number of digits "{:.4}" prints after the decimal point
Precision == 4

\* the raw value of Currency 1.0, and the number of printed units in 1.0
CurrencyOne == 2 ^ FracBits
PrintedOne == 10 ^ Precision

Abs(n) == IF n < 0 THEN 0 - n ELSE n

\* format!("{:.4}", currency): the printed decimal, in units of 0.0001, that
\* is nearest to the raw value c (ties need |c| = 512 mod 1024, far above
\* the balances the bounded inputs reach)
Format4(c) ==
    LET n == Abs(c) * PrintedOne
        q == n \div CurrencyOne
        r == n % CurrencyOne
        m == IF 2 * r >= CurrencyOne THEN q + 1 ELSE q
    IN IF c < 0 THEN 0 - m ELSE m

\* variant: total forgets the held funds
ClientOutputState_TotalIsAvailable(input, cid) ==
    [cid |-> cid, available |-> input.available, held |-> input.held,
     total |-> input.available, locked |-> input.locked]

\* ClientOutputState::from(input, cid)
ClientOutputState(input, cid) ==
    [cid |-> cid, available |-> input.available, held |-> input.held,
     total |-> input.available + input.held, locked |-> input.locked]

\* writer.serialize(..): the printed row client,available,held,total,locked
Serialize(row) ==
    [client |-> row.cid, available |-> Format4(row.available),
     held |-> Format4(row.held), total |-> Format4(row.total),
     locked |-> row.locked]

\* the rows main prints after the loop, in no particular order
PrintedRows(cl) == {Serialize(ClientOutputState(cl[c], c)) : c \in DOMAIN cl}

\* ---- state ----
NoOrigin == [amount |-> 0, open |-> FALSE]

\* deposit_run when some applied row was not a Deposit to the one client
NoRun == [pure |-> FALSE, cid |-> 0, sum |-> 0]

VARIABLES
    clients,      \* AppState.clients : HashMap<ClientId, ClientState>
    steps,        \* number of rows applied so far
    last,         \* the row applied last (NoTx before the first)
    diag,         \* the diagnostic printed while applying `last` ("" for none)
    previous_tx,  \* the record the arm of `last` looked up (NoTx if none)
    pre,          \* Balances of the account `last` addresses, before `last`
    origin,       \* when `last` is a Resolve or ChargeBack that closes the
                  \* dispute opened by the row right before it: the Balances
                  \* before that Dispute and the amount it moved
    referenced,   \* the ClientIds the rows applied so far carried
    deposit_run,  \* while every applied row was a Deposit to one client:
                  \* that client and the sum of the amounts (else NoRun)
    phase,        \* position in main: "reading" rows, or "done" (printed)
    rows_read,    \* number of rows the reader has yielded, bad ones included
    decode_failed,\* the reader yielded a row that did not deserialize
    output        \* the rows printed on stdout

vars == <<clients, steps, last, diag, previous_tx, pre, origin,
          referenced, deposit_run, phase, rows_read, decode_failed, output>>

Init ==
    /\ clients = EmptyMap
    /\ steps = 0
    /\ last = NoTx
    /\ diag = ""
    /\ previous_tx = NoTx
    /\ pre = Balances(ClientStateDefault)
    /\ origin = NoOrigin
    /\ referenced = {}
    /\ deposit_run = [pure |-> TRUE, cid |-> 0, sum |-> 0]
    /\ phase = "reading"
    /\ rows_read = 0
    /\ decode_failed = FALSE
    /\ output = {}

\* `tx` closes the dispute that `last` has just opened
ClosesLast(tx) ==
    /\ last.tx_type = "Dispute"
    /\ previous_tx # NoTx
    /\ tx.tx_type \in {"Resolve", "ChargeBack"}
    /\ tx.cid = last.cid
    /\ tx.tid = last.tid

\* the run of Deposits to one client, continued by tx or ended by it
RunAfter(run, tx) ==
    IF run.pure /\ tx.tx_type = "Deposit" /\ run.cid \in {0, tx.cid}
    THEN [pure |-> TRUE, cid |-> tx.cid, sum |-> run.sum + tx.amount]
    ELSE NoRun

\* one iteration of the loop of main: decode a row and apply it
Apply(input) ==
    /\ phase = "reading"
    /\ steps < MaxSteps
    /\ LET tx == TxFrom(input) IN
        /\ clients' = execute_transaction(clients, tx)
        /\ last' = tx
        /\ diag' = Diagnostic(clients, tx)
        /\ previous_tx' = PreviousTx(clients, tx)
        /\ pre' = Balances(EntryOrDefault(clients, tx.cid))
        /\ origin' = IF ClosesLast(tx)
                     THEN [amount |-> previous_tx.amount, open |-> TRUE, bal |-> pre]
                     ELSE NoOrigin
        /\ referenced' = referenced \cup {tx.cid}
        /\ deposit_run' = RunAfter(deposit_run, tx)
    /\ steps' = steps + 1
    /\ rows_read' = rows_read + 1
    /\ UNCHANGED <<phase, decode_failed, output>>

Deposit == \E i \in InputTx : i.ty = "Deposit" /\ Apply(i)
Withdrawal == \E i \in InputTx : i.ty = "Withdrawal" /\ Apply(i)
Dispute == \E i \in InputTx : i.ty = "Dispute" /\ Apply(i)
Resolve == \E i \in InputTx : i.ty = "Resolve" /\ Apply(i)
ChargeBack == \E i \in InputTx : i.ty = "ChargeBack" /\ Apply(i)

\* variant: the bad row is skipped and reading goes on
DecodeError_Skips ==
    /\ phase = "reading"
    /\ rows_read < MaxSteps
    /\ rows_read' = rows_read + 1
    /\ decode_failed' = TRUE
    /\ UNCHANGED <<clients, steps, last, diag, previous_tx, pre, origin,
                   referenced, deposit_run, phase, output>>

\* the reader yields a row that does not deserialize: main logs it, breaks
\* out of the loop and prints the accounts
DecodeError ==
    /\ phase = "reading"
    /\ rows_read' = rows_read + 1
    /\ decode_failed' = TRUE
    /\ phase' = "done"
    /\ output' = PrintedRows(clients)
    /\ UNCHANGED <<clients, steps, last, diag, previous_tx, pre, origin,
                   referenced, deposit_run>>

\* the reader is exhausted: the loop ends and main prints the accounts
EndOfInput ==
    /\ phase = "reading"
    /\ phase' = "done"
    /\ output' = PrintedRows(clients)
    /\ UNCHANGED <<clients, steps, last, diag, previous_tx, pre, origin,
                   referenced, deposit_run, rows_read, decode_failed>>

Next ==
    \/ Deposit \/ Withdrawal \/ Dispute \/ Resolve \/ ChargeBack
    \/ DecodeError \/ EndOfInput

Spec == Init /\ [][Next]_vars

\* the account `last` addressed, as it is now
Addressed == clients[last.cid]

Applied(ty) == last.tx_type = ty
Accepted(ty) == last.tx_type = ty /\ diag = ""
RejectedRow(ty) == last.tx_type = ty /\ diag # ""

DepositOrWithdrawal == {"Deposit", "Withdrawal"}
DisputeKinds == {"Dispute", "Resolve", "ChargeBack"}

\* C1: in every reachable state and for every client account, no TxId is a
\* key of both `history` and `disputed`.
C1_Disjoint ==
    \A c \in DOMAIN clients :
        DOMAIN clients[c].history \cap DOMAIN clients[c].disputed = {}

\* C2: a Dispute, Resolve or ChargeBack that fails its precondition leaves
\* the addressed account (available, held, locked, history, disputed)
\* exactly as it was before the call.
C2_RejectedNoMutation ==
    \A tx \in AllTx :
        (/\ tx.cid \in DOMAIN clients
         /\ tx.tx_type \in DisputeKinds
         /\ Diagnostic(clients, tx) # "")
        => execute_transaction(clients, tx)[tx.cid] = clients[tx.cid]

\* C3: a Dispute naming a TxId that is in `disputed` is rejected: available
\* and held are unchanged and `disputed` still holds the originally disputed
\* record under that TxId.
C3_RedisputeRejected ==
    \A tx \in AllTx :
        (/\ tx.cid \in DOMAIN clients
         /\ tx.tx_type = "Dispute"
         /\ tx.tid \in DOMAIN clients[tx.cid].disputed)
        => LET ce == clients[tx.cid]
               after == execute_transaction(clients, tx)[tx.cid] IN
           /\ Diagnostic(clients, tx) # ""
           /\ after.available = ce.available
           /\ after.held = ce.held
           /\ after.disputed[tx.tid] = ce.disputed[tx.tid]

\* C4: the amount an accepted Dispute, Resolve or ChargeBack moves is the
\* amount of a Deposit or Withdrawal record, never the amount carried by
\* a Dispute, Resolve or ChargeBack record.
C4_MovesReferencedAmount ==
    (last.tx_type \in DisputeKinds /\ diag = "")
    => previous_tx.tx_type \in DepositOrWithdrawal

\* C5: Dispute then Resolve is an identity on balances: when the Dispute of
\* a TxId in `history` is followed by the Resolve of the same TxId, available
\* and held are back at their values before the Dispute and locked is as it
\* was.  Checked on the rows actually applied (origin) and, in every state
\* right after an accepted Dispute, for every Resolve row that can follow.
C5_DisputeResolveIdentity ==
    /\ (Accepted("Resolve") /\ origin.open) => Balances(Addressed) = origin.bal
    /\ Accepted("Dispute") =>
           \A tx \in AllTx :
               (tx.tx_type = "Resolve" /\ tx.cid = last.cid /\ tx.tid = last.tid)
               => Balances(execute_transaction(clients, tx)[tx.cid]) = pre

C5_Witness ==
    /\ Accepted("Resolve")
    /\ origin.open
    /\ origin.amount > 0
    /\ Addressed.available > 0

\* C6: Dispute then ChargeBack of the same TxId (amount A): held is back at
\* its value before the Dispute, available is its value before the Dispute
\* minus A, and locked is true.
C6_DisputeChargeBack ==
    /\ (Accepted("ChargeBack") /\ origin.open) =>
           /\ Addressed.held = origin.bal.held
           /\ Addressed.available = origin.bal.available - origin.amount
           /\ Addressed.locked = TRUE
    /\ Accepted("Dispute") =>
           \A tx \in AllTx :
               (tx.tx_type = "ChargeBack" /\ tx.cid = last.cid /\ tx.tid = last.tid)
               => LET after == execute_transaction(clients, tx)[tx.cid] IN
                  /\ after.held = pre.held
                  /\ after.available = pre.available - previous_tx.amount
                  /\ after.locked = TRUE

C6_Witness ==
    /\ Accepted("ChargeBack")
    /\ origin.open
    /\ origin.amount > 0
    /\ ~origin.bal.locked

\* C7: a Withdrawal of a non-negative amount a subtracts a from available
\* when available >= a and leaves available unchanged otherwise; held and
\* locked are unchanged; an accepted Withdrawal leaves available >= 0.
C7_Withdrawal ==
    (Applied("Withdrawal") /\ last.amount >= 0) =>
        /\ pre.available >= last.amount
               => Addressed.available = pre.available - last.amount
        /\ pre.available < last.amount
               => Addressed.available = pre.available
        /\ Addressed.held = pre.held
        /\ Addressed.locked = pre.locked
        /\ diag = "" <=> pre.available >= last.amount
        /\ diag = "" => Addressed.available >= 0

C7_Witness ==
    /\ Accepted("Withdrawal")
    /\ last.amount > 0
    /\ Addressed.available = pre.available - last.amount

\* C8: a Dispute whose TxId is not a key of the addressed client's
\* `history` leaves available, held and locked of that client unchanged.
C8_UnknownDispute ==
    RejectedRow("Dispute") => Balances(Addressed) = pre

C8_Witness ==
    /\ RejectedRow("Dispute")
    /\ last.amount # 0
    /\ pre.available > 0

\* C9: a Resolve or ChargeBack whose TxId is not a key of the addressed
\* client's `disputed` leaves available, held and locked unchanged; an
\* unmatched ChargeBack does not lock the account.
C9_UnknownResolveChargeBack ==
    (RejectedRow("Resolve") \/ RejectedRow("ChargeBack")) => Balances(Addressed) = pre

C9_Witness ==
    /\ RejectedRow("ChargeBack")
    /\ ~Addressed.locked
    /\ Addressed.held > 0

\* C10: locking is one-way: whatever row is applied next, an account that
\* is locked stays locked, and an account goes from unlocked to locked only
\* by an accepted ChargeBack addressed to it.
C10_LockOneWay ==
    \A tx \in AllTx :
        LET after == execute_transaction(clients, tx) IN
        \A c \in DOMAIN after :
            LET was == EntryOrDefault(clients, c).locked
                now == after[c].locked IN
            /\ was => now
            /\ (~was /\ now) =>
                   /\ tx.tx_type = "ChargeBack"
                   /\ tx.cid = c
                   /\ Diagnostic(clients, tx) = ""

C10_Witness ==
    /\ Accepted("ChargeBack")
    /\ ~pre.locked
    /\ Addressed.locked

\* C11: the locked flag does not influence processing: the same row applied
\* to the account as it is and to the account with locked flipped gives the
\* same available, held, history, disputed and the same diagnostic (rows are
\* applied while main is reading; the accounts of a "done" state are those
\* of the reading state before it).
C11_LockIgnored ==
    \A tx \in AllTx :
        (phase = "reading" /\ tx.cid \in DOMAIN clients) =>
            LET other == [clients EXCEPT ![tx.cid].locked = ~@]
                a == execute_transaction(clients, tx)[tx.cid]
                b == execute_transaction(other, tx)[tx.cid] IN
            /\ a.available = b.available
            /\ a.held = b.held
            /\ a.history = b.history
            /\ a.disputed = b.disputed
            /\ Diagnostic(clients, tx) = Diagnostic(other, tx)

C11_Witness ==
    /\ Accepted("ChargeBack")
    /\ Addressed.locked
    /\ Addressed.available >= 0
    /\ last.tid \in DOMAIN Addressed.history

\* C16: every Deposit and every Withdrawal, a Withdrawal rejected for
\* insufficient funds included, is in `history` under its TxId after it was
\* processed; a Dispute of a rejected Withdrawal's TxId is then accepted and
\* moves that Withdrawal's amount from available to held.
C16_RejectedWithdrawalRecorded ==
    /\ last.tx_type \in DepositOrWithdrawal =>
           /\ last.tid \in DOMAIN Addressed.history
           /\ Addressed.history[last.tid] = last
    /\ RejectedRow("Withdrawal") =>
           \A tx \in AllTx :
               (tx.tx_type = "Dispute" /\ tx.cid = last.cid /\ tx.tid = last.tid)
               => LET after == execute_transaction(clients, tx)[tx.cid] IN
                  /\ Diagnostic(clients, tx) = ""
                  /\ after.held = Addressed.held + last.amount
                  /\ after.available = Addressed.available - last.amount
                  /\ after.disputed[tx.tid] = last

C16_Witness ==
    /\ RejectedRow("Withdrawal")
    /\ last.amount > 0
    /\ Addressed.available = pre.available

\* C17: a Dispute is never rejected for insufficient funds: whenever its
\* TxId is in `history` it is applied (held += amount, available -= amount)
\* whatever available is; available < 0 is reachable this way.
C17_DisputeIgnoresFunds ==
    /\ \A tx \in AllTx :
           (/\ tx.tx_type = "Dispute"
            /\ tx.cid \in DOMAIN clients
            /\ tx.tid \in DOMAIN clients[tx.cid].history)
           => LET ce == clients[tx.cid]
                  amount == ce.history[tx.tid].amount
                  after == execute_transaction(clients, tx)[tx.cid] IN
              /\ Diagnostic(clients, tx) = ""
              /\ after.held = ce.held + amount
              /\ after.available = ce.available - amount
    /\ Accepted("Dispute") =>
           /\ Addressed.held = pre.held + previous_tx.amount
           /\ Addressed.available = pre.available - previous_tx.amount

C17_Witness ==
    /\ Accepted("Dispute")
    /\ previous_tx.tx_type = "Deposit"
    /\ previous_tx.amount > 0
    /\ pre.available = 0
    /\ Addressed.available < 0

\* C18: client isolation: a row addressed to client c leaves the account of
\* every other client unchanged (and creates none), and a Dispute, Resolve
\* or ChargeBack addressed to c that names a TxId recorded only under another
\* client is rejected and changes no balance of either client.
C18_ClientIsolation ==
    \A tx \in AllTx :
        LET after == execute_transaction(clients, tx) IN
        /\ \A c \in ClientIds \ {tx.cid} :
               /\ c \in DOMAIN after <=> c \in DOMAIN clients
               /\ c \in DOMAIN clients => after[c] = clients[c]
        /\ (/\ tx.tx_type \in DisputeKinds
            /\ tx.tid \notin DOMAIN EntryOrDefault(clients, tx.cid).history
            /\ tx.tid \notin DOMAIN EntryOrDefault(clients, tx.cid).disputed)
           => /\ Diagnostic(clients, tx) # ""
              /\ Balances(after[tx.cid]) = Balances(EntryOrDefault(clients, tx.cid))

C18_Witness ==
    /\ RejectedRow("Dispute")
    /\ \E c \in DOMAIN clients \ {last.cid} :
           /\ last.tid \in DOMAIN clients[c].history
           /\ clients[c].history[last.tid].tx_type = "Deposit"
           /\ clients[c].available > 0
    /\ Balances(Addressed) = pre

\* the sum of the amounts of the records a map holds
RECURSIVE SumAmounts(_)
SumAmounts(m) ==
    IF DOMAIN m = {} THEN 0
    ELSE LET k == CHOOSE x \in DOMAIN m : TRUE IN
         m[k].amount + SumAmounts(MapRemove(m, k))

\* C19: in every reachable state and for every client, held equals the sum
\* of the amounts of the records in that client's `disputed`.
C19_HeldIsDisputedSum ==
    \A c \in DOMAIN clients : clients[c].held = SumAmounts(clients[c].disputed)

\* C20: an account becomes locked only if a Deposit or Withdrawal of that
\* client was disputed and then charged back; rows that are all Dispute,
\* Resolve or ChargeBack cannot lock it.
C20_LockNeedsDeposit ==
    (Accepted("ChargeBack") /\ ~pre.locked /\ Addressed.locked)
    => previous_tx.tx_type \in DepositOrWithdrawal

\* C12: an account exists exactly for the ClientIds that an applied row
\* carried, whether the row was accepted or rejected; it is created with
\* available 0, held 0, unlocked and empty maps (then the row is applied to
\* it); no row removes an account.
C12_LazyAccounts ==
    /\ DOMAIN clients = referenced
    /\ \A tx \in AllTx :
           LET after == execute_transaction(clients, tx) IN
           /\ DOMAIN after = DOMAIN clients \cup {tx.cid}
           /\ tx.cid \notin DOMAIN clients =>
                  LET ce == after[tx.cid] IN
                  /\ ce.held = 0
                  /\ ce.locked = FALSE
                  /\ ce.disputed = EmptyMap
                  /\ DOMAIN ce.history = {tx.tid}
                  /\ ce.available =
                         CASE tx.tx_type = "Deposit" -> tx.amount
                           [] tx.tx_type = "Withdrawal" ->
                                  IF 0 >= tx.amount THEN 0 - tx.amount ELSE 0
                           [] OTHER -> 0

C12_Witness ==
    /\ RejectedRow("Resolve")
    /\ Cardinality(DOMAIN clients) >= 2
    /\ referenced = DOMAIN clients
    /\ DOMAIN Addressed.history = {last.tid}
    /\ Balances(Addressed) = Balances(ClientStateDefault)

\* C13: after rows that are all Deposits to one client, available of that
\* client is the sum of the deposited amounts, held is 0 and locked is false.
C13_DepositSum ==
    (deposit_run.pure /\ deposit_run.cid # 0) =>
        /\ DOMAIN clients = {deposit_run.cid}
        /\ clients[deposit_run.cid].available = deposit_run.sum
        /\ clients[deposit_run.cid].held = 0
        /\ clients[deposit_run.cid].locked = FALSE

C13_Witness ==
    /\ deposit_run.pure
    /\ steps >= 2
    /\ deposit_run.sum > last.amount
    /\ last.amount > 0

\* C14: a row that fails to decode halts ingestion: the rows before it were
\* applied, none after it is, and the accounts as they are at that point
\* are printed.
C14_DecodeErrorHalts ==
    /\ decode_failed =>
           /\ phase = "done"
           /\ steps = rows_read - 1
           /\ output = PrintedRows(clients)
           /\ Cardinality(output) = Cardinality(DOMAIN clients)
    /\ ~decode_failed => steps = rows_read

C14_Witness ==
    /\ decode_failed
    /\ phase = "done"
    /\ steps >= 2
    /\ Cardinality(output) >= 2

\* C15: the total of every printed row is available + held of that client's
\* account at the end of the stream (computed when the row is built, then
\* printed with 4 decimals), one row per client.
C15_TotalDerived ==
    phase = "done" =>
        /\ \A row \in output :
               /\ row.client \in DOMAIN clients
               /\ row.total = Format4(clients[row.client].available
                                      + clients[row.client].held)
        /\ \A c \in DOMAIN clients : \E row \in output : row.client = c

C15_Witness ==
    /\ phase = "done"
    /\ \E row \in output :
           /\ row.total # 0
           /\ clients[row.client].available # 0
           /\ clients[row.client].held # 0

====
